---- MODULE Spec2Model ----
(***************************************************************************)
(* Model of src/app.py, the MFlix analytics dashboard: one top-to-bottom   *)
(* run of the page script per user interaction, against a read-only        *)
(* document store (movies, users, comments).                               *)
(*                                                                         *)
(* Ratings are kept in tenths (8.9 is 89, the slider step 0.5 is 5) so     *)
(* that every average is an exact fraction [num, den].                     *)
(***************************************************************************)
EXTENDS Integers, Sequences, FiniteSets, TLC

VARIABLES
    store,          \* the document store: movies, comments, collections
    env,            \* MONGO_URI present, server answers the ping, queries may raise
    cache,          \* st.cache_resource slot of get_db
    pinged,         \* a ping has succeeded in this process
    pc,             \* position of the script in the current run
    session,        \* widget values the user has set
    interactions,   \* number of user interactions so far
    failed,         \* the blocks whose query raised in this run
    queries,        \* collections queried in this run
    kpi,            \* movies_count, users_count, comments_count, avg_rating
    bounds,         \* min_year, max_year
    genre_list,     \* options of the genre multiselect
    filter,         \* year_range, selected_genres, rating_filter
    match_stage,    \* the filter predicate handed to every pipeline
    rendered        \* what each panel has put on the page

vars == <<store, env, cache, pinged, pc, session, interactions, failed,
          queries, kpi, bounds, genre_list, filter, match_stage, rendered>>

----------------------------------------------------------------------------
(* Bounds of the model *)

MaxBase == 2            \* hand-picked movies in the store
MaxComments == 1        \* comments per hand-picked movie
PadMovies == 21         \* size of the bulk part of a large store
SomeUsers == 3          \* documents in the users collection, when it exists
MaxFailures == 1        \* queries that raise in one run
MaxInteractions == 1    \* user interactions (each reruns the script)

(* Program constants *)

DefaultYearFloor == 1980
FallbackMinYear == 1900
FallbackMaxYear == 2025
RatingMin == 0
RatingMax == 100
RatingDefault == 50
GenreOptionsLimit == 50
DiscussionLimit == 15
LimitMin == 5
LimitDefault == 20

----------------------------------------------------------------------------
(* Documents *)

Null == "null"

Num(n) == [type |-> "number", val |-> n]
NotNum == [type |-> "string", val |-> 0]

Movie(t, y, r, g) == [title |-> t, year |-> y, rating |-> r, genres |-> g]

Alpha == Movie(<<"A", "l", "p", "h", "a">>, Num(1994), Num(89), <<"Drama">>)
Beta == Movie(<<"B", "e", "t", "a">>, Num(2001), Num(65), <<"Drama", "Comedy">>)
Alps == Movie(<<"A", "l", "p", "s">>, Num(1994), Num(65), <<>>)
Old == Movie(<<"O", "l", "d">>, Num(1975), Num(70), <<Null, "Comedy">>)
NoRate == Movie(<<"B", "e", "t", "s">>, Num(2001), NotNum, <<"Drama">>)
NoYear == Movie(<<"A", "l", "e">>, NotNum, Num(70), <<Null>>)

MovieKinds == <<Alpha, Beta, Alps, Old, NoRate, NoYear>>

PadMovie(i) ==
    Movie(<<"A", "l", "p", "s">>, Num(IF i % 2 = 1 THEN 1994 ELSE 2001),
          Num(70), <<"Drama">>)

PadCommentCount(i) == i % 3

----------------------------------------------------------------------------
(* Sequences *)

Max(a, b) == IF a >= b THEN a ELSE b
Min(a, b) == IF a <= b THEN a ELSE b

Take(s, n) == SubSeq(s, 1, Min(n, Len(s)))

Range(s) == {s[i] : i \in DOMAIN s}

RECURSIVE Repeat(_, _)
Repeat(x, n) == IF n <= 0 THEN <<>> ELSE <<x>> \o Repeat(x, n - 1)

(* $sort on an integer key, ascending.  The server promises no order among *)
(* documents with equal keys: rev chooses between the two extreme orders.  *)
RECURSIVE Insert(_, _, _)
Insert(sorted, e, rev) ==
    IF sorted = <<>> THEN <<e>>
    ELSE IF e.k < Head(sorted).k \/ (rev /\ e.k = Head(sorted).k)
         THEN <<e>> \o sorted
         ELSE <<Head(sorted)>> \o Insert(Tail(sorted), e, rev)

RECURSIVE SortKeyed(_, _)
SortKeyed(s, rev) ==
    IF s = <<>> THEN <<>>
    ELSE Insert(SortKeyed(SubSeq(s, 1, Len(s) - 1), rev), s[Len(s)], rev)

Rows(keyed) == [i \in DOMAIN keyed |-> keyed[i].row]

----------------------------------------------------------------------------
(* The filter predicate *)

MatchStage(year_range, rating_filter, selected_genres) ==
    [year_gte |-> year_range[1], year_lte |-> year_range[2],
     rating_gte |-> rating_filter,
     has_genres |-> selected_genres # {}, genres_in |-> selected_genres]

NoMatchStage == MatchStage(<<0, 0>>, 0, {})

Matches(m, ms) ==
    /\ m.year.type = "number"
    /\ m.year.val >= ms.year_gte
    /\ m.year.val <= ms.year_lte
    /\ m.rating.type = "number"
    /\ m.rating.val >= ms.rating_gte
    /\ ms.has_genres => Range(m.genres) \cap ms.genres_in # {}

(* Documents of the movies collection, each with its _id *)
Docs(movies) == [i \in DOMAIN movies |-> [_id |-> i, doc |-> movies[i]]]

Matched(movies, ms) == SelectSeq(Docs(movies), LAMBDA d : Matches(d.doc, ms))

----------------------------------------------------------------------------
(* $group with $avg and $sum: one accumulator per key, in first-seen order *)

RECURSIVE PosOf(_, _, _)
PosOf(acc, key, i) ==
    IF i > Len(acc) THEN 0
    ELSE IF acc[i]._id = key THEN i ELSE PosOf(acc, key, i + 1)

RECURSIVE Group(_, _)
Group(keyed, acc) ==
    IF keyed = <<>> THEN acc
    ELSE LET d == Head(keyed)
             i == PosOf(acc, d.key, 1)
         IN Group(Tail(keyed),
                  IF i = 0
                  THEN Append(acc, [_id |-> d.key, sum |-> d.rating, n |-> 1])
                  ELSE [acc EXCEPT ![i].sum = @ + d.rating, ![i].n = @ + 1])

GroupRow(a) ==
    [_id |-> a._id, avgRating |-> [num |-> a.sum, den |-> a.n],
     movieCount |-> a.n]

GroupRows(acc) == [i \in DOMAIN acc |-> GroupRow(acc[i])]

----------------------------------------------------------------------------
(* KPI block *)

ZeroAvg == [num |-> 0, den |-> 1]

NumericRatings(movies) ==
    SelectSeq(movies, LAMBDA m : m.rating.type = "number")

(* $sum where $avg is meant *)
KpiSumPipeline(movies) ==
    LET docs == NumericRatings(movies)
        keyed == [i \in DOMAIN docs |-> [key |-> Null, rating |-> docs[i].rating.val]]
        acc == Group(keyed, <<>>)
    IN [i \in DOMAIN acc |->
          [_id |-> acc[i]._id, avgRating |-> [num |-> acc[i].sum, den |-> 1],
           movieCount |-> acc[i].n]]

KpiAvgPipeline(movies) ==
    LET docs == NumericRatings(movies)
        keyed == [i \in DOMAIN docs |-> [key |-> Null, rating |-> docs[i].rating.val]]
    IN GroupRows(Group(keyed, <<>>))

KpiMetrics(st) ==
    LET rating_data == KpiAvgPipeline(st.movies)
    IN [movies_count |-> Len(st.movies),
        users_count |-> IF "users" \in st.collections THEN st.users ELSE 0,
        comments_count |-> IF "comments" \in st.collections
                           THEN Len(st.comments) ELSE 0,
        avg_rating |-> IF rating_data # <<>> THEN rating_data[1].avgRating
                       ELSE ZeroAvg]

KpiFallback ==
    [movies_count |-> 0, users_count |-> 0, comments_count |-> 0,
     avg_rating |-> ZeroAvg]

----------------------------------------------------------------------------
(* Sidebar: year bounds, genre options *)

RECURSIVE MinMaxYear(_, _)
MinMaxYear(docs, acc) ==
    IF docs = <<>> THEN acc
    ELSE LET y == Head(docs).year.val
         IN MinMaxYear(Tail(docs),
                       IF acc = <<>> THEN <<[minYear |-> y, maxYear |-> y]>>
                       ELSE <<[minYear |-> Min(acc[1].minYear, y),
                               maxYear |-> Max(acc[1].maxYear, y)]>>)

YearStats(movies) ==
    MinMaxYear(SelectSeq(movies, LAMBDA m : m.year.type = "number"), <<>>)

(* "$min" for both bounds *)
YearBoundsMinOnly(movies) ==
    LET year_stats == YearStats(movies)
    IN [min_year |-> IF year_stats # <<>> THEN year_stats[1].minYear
                     ELSE FallbackMinYear,
        max_year |-> IF year_stats # <<>> THEN year_stats[1].minYear
                     ELSE FallbackMaxYear]

YearBounds(movies) ==
    LET year_stats == YearStats(movies)
    IN [min_year |-> IF year_stats # <<>> THEN year_stats[1].minYear
                     ELSE FallbackMinYear,
        max_year |-> IF year_stats # <<>> THEN year_stats[1].maxYear
                     ELSE FallbackMaxYear]

YearBoundsFallback == [min_year |-> FallbackMinYear, max_year |-> FallbackMaxYear]

(* $unwind "$genres": one document per element; a movie whose list is     *)
(* empty yields none.  rated says whether the pipeline reads the rating.  *)
(* the first genre only, as "$first" or "$arrayElemAt 0" would give *)
RECURSIVE UnwindFirstOnly(_, _)
UnwindFirstOnly(docs, rated) ==
    IF docs = <<>> THEN <<>>
    ELSE LET m == Head(docs)
         IN [i \in DOMAIN Take(m.genres, 1) |->
                [key |-> m.genres[i],
                 rating |-> IF rated THEN m.rating.val ELSE 0]]
            \o UnwindFirstOnly(Tail(docs), rated)

RECURSIVE Unwind(_, _)
Unwind(docs, rated) ==
    IF docs = <<>> THEN <<>>
    ELSE LET m == Head(docs)
         IN [i \in DOMAIN m.genres |->
                [key |-> m.genres[i],
                 rating |-> IF rated THEN m.rating.val ELSE 0]]
            \o Unwind(Tail(docs), rated)

ByCountDesc(rows, rev) ==
    Rows(SortKeyed([i \in DOMAIN rows |->
                      [k |-> 0 - rows[i].movieCount, row |-> rows[i]]], rev))

GenreOptions(movies, rev) ==
    LET genres_data ==
            Take(ByCountDesc(GroupRows(Group(Unwind(movies, FALSE), <<>>)), rev),
                 GenreOptionsLimit)
        kept == SelectSeq(genres_data, LAMBDA g : g._id # Null)
    IN [i \in DOMAIN kept |-> kept[i]._id]

----------------------------------------------------------------------------
(* Widgets *)

DefaultYearRange(b) == <<Max(b.min_year, DefaultYearFloor), b.max_year>>

(* st.slider raises when its default value does not lie inside its bounds *)
SliderAccepts(b, value) ==
    b.min_year <= value[1] /\ value[1] <= value[2] /\ value[2] <= b.max_year

(* A widget keeps the user's value only while its arguments are unchanged *)
YearRangeValue(b, sess) ==
    IF sess.year.set /\ sess.year.bounds = b THEN sess.year.value
    ELSE DefaultYearRange(b)

SelectedGenresValue(options, sess) ==
    IF sess.genres.options = options THEN sess.genres.value
    ELSE {}

----------------------------------------------------------------------------
(* Trend pipeline *)

(* the pipeline without its "$sort" stage *)
TrendPipelineUnsorted(movies, ms) ==
    LET docs == Matched(movies, ms)
        keyed == [i \in DOMAIN docs |->
                    [key |-> docs[i].doc.year.val,
                     rating |-> docs[i].doc.rating.val]]
    IN GroupRows(Group(keyed, <<>>))

TrendPipeline(movies, ms) ==
    LET docs == Matched(movies, ms)
        keyed == [i \in DOMAIN docs |->
                    [key |-> docs[i].doc.year.val,
                     rating |-> docs[i].doc.rating.val]]
        grouped == GroupRows(Group(keyed, <<>>))
    IN Rows(SortKeyed([i \in DOMAIN grouped |->
                         [k |-> grouped[i]._id, row |-> grouped[i]]], FALSE))

(* Genre pipeline *)

GenrePipeline(movies, ms, rev) ==
    LET docs == Matched(movies, ms)
        unwound == Unwind([i \in DOMAIN docs |-> docs[i].doc], TRUE)
        grouped == GroupRows(Group(unwound, <<>>))
        named == SelectSeq(grouped, LAMBDA g : g._id # Null)
    IN ByCountDesc(named, rev)

(* Discussion pipeline *)

Lookup(comments, id) == SelectSeq(comments, LAMBDA c : c.movie_id = id)

DiscussionRow(d, comments) ==
    [_id |-> d._id, title |-> d.doc.title, year |-> d.doc.year,
     rating |-> d.doc.rating,
     comment_count |-> Len(Lookup(comments, d._id)),
     genres |-> d.doc.genres]

(* an inner join: movies without comments are dropped *)
DiscussionInnerJoin(movies, comments, ms, rev) ==
    LET docs == Docs(movies)
        joined == SelectSeq(docs, LAMBDA d : Matches(d.doc, ms)
                                             /\ Lookup(comments, d._id) # <<>>)
        rows == [i \in DOMAIN joined |-> DiscussionRow(joined[i], comments)]
        sorted == Rows(SortKeyed([i \in DOMAIN rows |->
                          [k |-> 0 - rows[i].comment_count, row |-> rows[i]]], rev))
    IN Take(sorted, DiscussionLimit)

(* "$limit" ahead of "$sort" *)
DiscussionLimitFirst(movies, comments, ms, rev) ==
    LET docs == Docs(movies)
        joined == Take(SelectSeq(docs, LAMBDA d : Matches(d.doc, ms)),
                       DiscussionLimit)
        rows == [i \in DOMAIN joined |-> DiscussionRow(joined[i], comments)]
    IN Rows(SortKeyed([i \in DOMAIN rows |->
                         [k |-> 0 - rows[i].comment_count, row |-> rows[i]]], rev))

DiscussionPipeline(movies, comments, ms, rev) ==
    LET docs == Docs(movies)
        joined == SelectSeq(docs, LAMBDA d : Matches(d.doc, ms))
        rows == [i \in DOMAIN joined |-> DiscussionRow(joined[i], comments)]
        sorted == Rows(SortKeyed([i \in DOMAIN rows |->
                          [k |-> 0 - rows[i].comment_count, row |-> rows[i]]], rev))
    IN Take(sorted, DiscussionLimit)

----------------------------------------------------------------------------
(* Search: "$regex" with option "i".  The pattern language modelled is    *)
(* literals, "." (any character) and "(", which unclosed is no regex.     *)

Lower(c) ==
    CASE c = "A" -> "a"
      [] c = "B" -> "b"
      [] c = "L" -> "l"
      [] c = "O" -> "o"
      [] c = "P" -> "p"
      [] OTHER -> c

RegexCompiles(p) == \A i \in DOMAIN p : p[i] # "("

RegexMatchesAt(p, t, off) ==
    \A i \in DOMAIN p : p[i] = "." \/ Lower(p[i]) = Lower(t[off + i - 1])

RegexSearch(p, t) ==
    \E off \in 1..(Len(t) - Len(p) + 1) : RegexMatchesAt(p, t, off)

SearchRow(d) ==
    [_id |-> d._id, title |-> d.doc.title, year |-> d.doc.year,
     genres |-> d.doc.genres, rating |-> d.doc.rating]

SearchFind(movies, search_query, ms, result_limit) ==
    LET hits == SelectSeq(Docs(movies),
                          LAMBDA d : RegexSearch(search_query, d.doc.title)
                                     /\ Matches(d.doc, ms))
    IN [i \in DOMAIN Take(hits, result_limit) |-> SearchRow(hits[i])]

----------------------------------------------------------------------------
(* The store and the environment the script finds *)

(* The hand-picked part of a store: up to n movies, listed in the order of *)
(* MovieKinds (a kind may repeat).                                         *)
RECURSIVE Bases(_)
Bases(n) ==
    IF n = 0 THEN {<<>>}
    ELSE LET shorter == Bases(n - 1)
         IN shorter \cup
            {Append(s, k) : s \in shorter, k \in DOMAIN MovieKinds}

Ordered(ks) == \A i \in 1..(Len(ks) - 1) : ks[i] <= ks[i + 1]

(* Comments of the hand-picked movies, when the store has any: the i-th    *)
(* movie has i mod (MaxComments + 1) of them.                              *)
BaseCommentCount(i, commented) ==
    IF commented THEN i % (MaxComments + 1) ELSE 0

RECURSIVE CommentsOf(_, _, _)
CommentsOf(counts, i, n) ==
    IF i > n THEN <<>>
    ELSE Repeat([movie_id |-> i], counts[i]) \o CommentsOf(counts, i + 1, n)

BuildStore(base, commented, padded, colls) ==
    LET picked == [i \in DOMAIN base |-> MovieKinds[base[i]]]
        pad == IF padded THEN [j \in 1..PadMovies |-> PadMovie(j)] ELSE <<>>
        movies == picked \o pad
        all == [i \in DOMAIN movies |->
                  IF i <= Len(base) THEN BaseCommentCount(i, commented)
                  ELSE PadCommentCount(i - Len(base))]
    IN [movies |-> movies,
        comments |-> CommentsOf(all, 1, Len(movies)),
        users |-> IF "users" \in colls THEN SomeUsers ELSE 0,
        collections |-> colls]

Stores ==
    {st \in {BuildStore(base, commented, padded, colls) :
                base \in {ks \in Bases(MaxBase) : Ordered(ks)},
                commented \in BOOLEAN,
                padded \in BOOLEAN,
                colls \in {{"movies"}, {"movies", "comments"},
                           {"movies", "users", "comments"}}} :
        /\ Len(st.movies) > PadMovies => Len(st.movies) < PadMovies + MaxBase
        /\ st.comments # <<>> => "comments" \in st.collections
        /\ st.comments = <<>> => "users" \notin st.collections}

(* Raising queries are explored on the stores of at most one movie and on *)
(* the bulk store.                                                         *)
FlakyStores ==
    {st \in Stores : Len(st.movies) <= 1 \/ Len(st.movies) = PadMovies}

----------------------------------------------------------------------------
(* What the user may set a widget to *)

YearRangePicks == {<<1975, 2001>>, <<1994, 1994>>, <<1990, 2020>>}
RatingPicks == {RatingMin, 70}
SearchPicks == {<<"a", "L", "p">>, <<"a", ".", "p">>, <<"(">>}
LimitPicks == {LimitMin}

NoSession ==
    [year |-> [set |-> FALSE, bounds |-> YearBoundsFallback, value |-> <<0, 0>>],
     genres |-> [options |-> <<>>, value |-> {}],
     rating |-> RatingDefault,
     search |-> <<>>,
     limit |-> LimitDefault]

----------------------------------------------------------------------------
(* One run of the script *)

Panels == {"kpi", "trend", "genre", "discussion", "search"}

Nothing == [status |-> "none", rows |-> <<>>]
Error == [status |-> "error", rows |-> <<>>]
Table(rows) == [status |-> IF rows # <<>> THEN "ok" ELSE "empty", rows |-> rows]

NoFilter == [year_range |-> <<0, 0>>, selected_genres |-> {}, rating_filter |-> 0]

MayFail == env.flaky /\ Cardinality(failed) < MaxFailures

RunStart ==
    /\ pc' = "config"
    /\ failed' = {}
    /\ queries' = {}
    /\ kpi' = KpiFallback
    /\ bounds' = YearBoundsFallback
    /\ genre_list' = <<>>
    /\ filter' = NoFilter
    /\ match_stage' = NoMatchStage
    /\ rendered' = [p \in Panels |-> Nothing]

Init ==
    /\ store \in Stores
    /\ env \in [uri : BOOLEAN, ping : BOOLEAN, flaky : BOOLEAN]
    /\ env.flaky => store \in FlakyStores
    /\ cache = "empty"
    /\ pinged = FALSE
    /\ session = NoSession
    /\ interactions = 0
    /\ pc = "config"
    /\ failed = {}
    /\ queries = {}
    /\ kpi = KpiFallback
    /\ bounds = YearBoundsFallback
    /\ genre_list = <<>>
    /\ filter = NoFilter
    /\ match_stage = NoMatchStage
    /\ rendered = [p \in Panels |-> Nothing]

(* if not MONGO_URI: st.stop() *)
CheckConfig ==
    /\ pc = "config"
    /\ pc' = IF env.uri THEN "get_db" ELSE "stopped"
    /\ UNCHANGED <<store, env, cache, pinged, session, interactions, failed,
                   queries, kpi, bounds, genre_list, filter, match_stage, rendered>>

(* get_db under st.cache_resource: the body runs once, its result is kept *)
GetDbResult(slot, ping) ==
    IF slot = "empty" THEN (IF ping THEN "db" ELSE "none") ELSE slot

(* the script without "if db is None: st.stop()" *)
DbAlwaysUsable(db) == TRUE

DbUsable(db) == db = "db"

GetDb ==
    /\ pc = "get_db"
    /\ cache' = GetDbResult(cache, env.ping)
    /\ pinged' = (pinged \/ (cache = "empty" /\ env.ping))
    /\ pc' = IF DbUsable(cache') THEN "kpi" ELSE "stopped"
    /\ UNCHANGED <<store, env, session, interactions, failed, queries, kpi,
                   bounds, genre_list, filter, match_stage, rendered>>

KpiQueried(st) == {"movies"} \cup (st.collections \cap {"users", "comments"})

Kpi ==
    /\ pc = "kpi"
    /\ \/ /\ kpi' = KpiMetrics(store)
          /\ queries' = queries \cup KpiQueried(store)
          /\ rendered' = [rendered EXCEPT !["kpi"] =
                             [status |-> "ok", rows |-> <<kpi'>>]]
          /\ UNCHANGED failed
       \/ /\ MayFail
          /\ kpi' = KpiFallback
          /\ queries' = queries \cup {"movies"}
          /\ failed' = failed \cup {"kpi"}
          /\ rendered' = [rendered EXCEPT !["kpi"] =
                             [status |-> "error", rows |-> <<kpi'>>]]
    /\ pc' = "year_filter"
    /\ UNCHANGED <<store, env, cache, pinged, session, interactions, bounds,
                   genre_list, filter, match_stage>>

YearFilter ==
    /\ pc = "year_filter"
    /\ \/ /\ bounds' = YearBounds(store.movies)
          /\ UNCHANGED failed
       \/ /\ MayFail
          /\ bounds' = YearBoundsFallback
          /\ failed' = failed \cup {"year_bounds"}
    /\ queries' = queries \cup {"movies"}
    /\ IF SliderAccepts(bounds', DefaultYearRange(bounds'))
       THEN /\ filter' = [filter EXCEPT !.year_range = YearRangeValue(bounds', session)]
            /\ pc' = "genre_filter"
       ELSE /\ pc' = "crashed"
            /\ UNCHANGED filter
    /\ UNCHANGED <<store, env, cache, pinged, session, interactions, kpi,
                   genre_list, match_stage, rendered>>

GenreFilter ==
    /\ pc = "genre_filter"
    /\ \/ /\ \E rev \in BOOLEAN : genre_list' = GenreOptions(store.movies, rev)
          /\ UNCHANGED failed
       \/ /\ MayFail
          /\ genre_list' = <<>>
          /\ failed' = failed \cup {"genre_options"}
    /\ queries' = queries \cup {"movies"}
    /\ filter' = [filter EXCEPT
                     !.selected_genres = SelectedGenresValue(genre_list', session)]
    /\ pc' = "rating_filter"
    /\ UNCHANGED <<store, env, cache, pinged, session, interactions, kpi,
                   bounds, match_stage, rendered>>

RatingFilter ==
    /\ pc = "rating_filter"
    /\ filter' = [filter EXCEPT !.rating_filter = session.rating]
    /\ match_stage' = MatchStage(filter'.year_range, filter'.rating_filter,
                                 filter'.selected_genres)
    /\ pc' = "trend"
    /\ UNCHANGED <<store, env, cache, pinged, session, interactions, failed,
                   queries, kpi, bounds, genre_list, rendered>>

Trend ==
    /\ pc = "trend"
    /\ \/ /\ rendered' = [rendered EXCEPT !["trend"] =
                             Table(TrendPipeline(store.movies, match_stage))]
          /\ UNCHANGED failed
       \/ /\ MayFail
          /\ rendered' = [rendered EXCEPT !["trend"] = Error]
          /\ failed' = failed \cup {"trend"}
    /\ queries' = queries \cup {"movies"}
    /\ pc' = "genre"
    /\ UNCHANGED <<store, env, cache, pinged, session, interactions, kpi,
                   bounds, genre_list, filter, match_stage>>

Genre ==
    /\ pc = "genre"
    /\ \/ /\ \E rev \in BOOLEAN :
                rendered' = [rendered EXCEPT !["genre"] =
                                Table(GenrePipeline(store.movies, match_stage, rev))]
          /\ UNCHANGED failed
       \/ /\ MayFail
          /\ rendered' = [rendered EXCEPT !["genre"] = Error]
          /\ failed' = failed \cup {"genre"}
    /\ queries' = queries \cup {"movies"}
    /\ pc' = "discussion"
    /\ UNCHANGED <<store, env, cache, pinged, session, interactions, kpi,
                   bounds, genre_list, filter, match_stage>>

Discussion ==
    /\ pc = "discussion"
    /\ IF kpi.comments_count > 0
       THEN /\ \/ /\ \E rev \in BOOLEAN :
                        rendered' = [rendered EXCEPT !["discussion"] =
                                        Table(DiscussionPipeline(store.movies,
                                                  store.comments, match_stage, rev))]
                  /\ UNCHANGED failed
               \/ /\ MayFail
                  /\ rendered' = [rendered EXCEPT !["discussion"] = Error]
                  /\ failed' = failed \cup {"discussion"}
            /\ queries' = queries \cup {"movies", "comments"}
       ELSE UNCHANGED <<rendered, failed, queries>>
    /\ pc' = "search"
    /\ UNCHANGED <<store, env, cache, pinged, session, interactions, kpi,
                   bounds, genre_list, filter, match_stage>>

Search ==
    /\ pc = "search"
    /\ IF session.search # <<>>
       THEN /\ \/ /\ RegexCompiles(session.search)
                  /\ rendered' = [rendered EXCEPT !["search"] =
                                     Table(SearchFind(store.movies, session.search,
                                                      match_stage, session.limit))]
                  /\ UNCHANGED failed
               \/ /\ MayFail \/ ~RegexCompiles(session.search)
                  /\ rendered' = [rendered EXCEPT !["search"] = Error]
                  /\ failed' = failed \cup {"search"}
            /\ queries' = queries \cup {"movies"}
       ELSE UNCHANGED <<rendered, failed, queries>>
    /\ pc' = "done"
    /\ UNCHANGED <<store, env, cache, pinged, session, interactions, kpi,
                   bounds, genre_list, filter, match_stage>>

(* The user changes one widget; Streamlit reruns the script from the top *)
Interact ==
    /\ pc = "done"
    /\ interactions < MaxInteractions
    /\ interactions' = interactions + 1
    /\ \/ \E v \in YearRangePicks :
             /\ SliderAccepts(bounds, v)
             /\ session' = [session EXCEPT
                               !.year = [set |-> TRUE, bounds |-> bounds, value |-> v]]
       \/ \E v \in (SUBSET Range(genre_list)) \ {{}} :
             session' = [session EXCEPT
                            !.genres = [options |-> genre_list, value |-> v]]
       \/ \E v \in RatingPicks : session' = [session EXCEPT !.rating = v]
       \/ \E v \in SearchPicks : session' = [session EXCEPT !.search = v]
       \/ \E v \in LimitPicks : session' = [session EXCEPT !.limit = v]
    /\ RunStart
    /\ UNCHANGED <<store, env, cache, pinged>>

Next ==
    \/ CheckConfig
    \/ GetDb
    \/ Kpi
    \/ YearFilter
    \/ GenreFilter
    \/ RatingFilter
    \/ Trend
    \/ Genre
    \/ Discussion
    \/ Search
    \/ Interact

Spec == Init /\ [][Next]_vars

----------------------------------------------------------------------------
(* Vocabulary of the properties, stated on the Filter State and the store *)
(* rather than on the pipelines.                                           *)

FilterBuilt == pc \in {"trend", "genre", "discussion", "search", "done"}

Ran(p) == rendered[p].status \in {"ok", "empty"}

SatisfiesFilter(m) ==
    /\ m.year.type = "number"
    /\ filter.year_range[1] <= m.year.val
    /\ m.year.val <= filter.year_range[2]
    /\ m.rating.type = "number"
    /\ m.rating.val >= filter.rating_filter
    /\ \/ filter.selected_genres = {}
       \/ \E i \in DOMAIN m.genres : m.genres[i] \in filter.selected_genres

Filtered == {i \in DOMAIN store.movies : SatisfiesFilter(store.movies[i])}

RECURSIVE SumRatings(_)
SumRatings(ids) ==
    IF ids = {} THEN 0
    ELSE LET i == CHOOSE x \in ids : TRUE
         IN store.movies[i].rating.val + SumRatings(ids \ {i})

RECURSIVE SumCounts(_)
SumCounts(rows) ==
    IF rows = <<>> THEN 0 ELSE Head(rows).movieCount + SumCounts(Tail(rows))

IsMean(avg, ids) ==
    /\ ids # {}
    /\ avg.den > 0
    /\ avg.num * Cardinality(ids) = SumRatings(ids) * avg.den

CommentsOn(id) == {j \in DOMAIN store.comments : store.comments[j].movie_id = id}

RowIds(rows) == {rows[i]._id : i \in DOMAIN rows}

Contains(t, p) ==
    \E off \in 1..(Len(t) - Len(p) + 1) :
        \A i \in DOMAIN p : Lower(p[i]) = Lower(t[off + i - 1])

----------------------------------------------------------------------------
(* C1: every row returned by the Trend, Genre and Discussion aggregators   *)
(* satisfies the filter predicate: a Trend row's year is in the year range *)
(* and its rating at least the floor, a Genre row's bucket is a selected   *)
(* genre when genres are selected, a Discussion row's movie satisfies the  *)
(* predicate.                                                              *)
C1_RowsSatisfyFilter ==
    /\ Ran("trend") =>
          \A i \in DOMAIN rendered["trend"].rows :
             LET r == rendered["trend"].rows[i]
             IN /\ filter.year_range[1] <= r._id
                /\ r._id <= filter.year_range[2]
                /\ r.avgRating.num >= filter.rating_filter * r.avgRating.den
    /\ Ran("genre") =>
          \A i \in DOMAIN rendered["genre"].rows :
             LET r == rendered["genre"].rows[i]
             IN /\ r.avgRating.num >= filter.rating_filter * r.avgRating.den
                /\ filter.selected_genres # {} => r._id \in filter.selected_genres
    /\ Ran("discussion") =>
          \A i \in DOMAIN rendered["discussion"].rows :
             SatisfiesFilter(rendered["discussion"].rows[i])

----------------------------------------------------------------------------
(* C2, as claimed: the sum of movie_count over the Genre rows is at least  *)
(* the number of distinct movies that satisfy the filter predicate.        *)
C2_SumCoversFiltered ==
    Ran("genre") => SumCounts(rendered["genre"].rows) >= Cardinality(Filtered)

Genred == {i \in Filtered :
              \E j \in DOMAIN store.movies[i].genres :
                 store.movies[i].genres[j] # Null}

Listings(g) ==
    UNION {{<<i, j>> : j \in {k \in DOMAIN store.movies[i].genres :
                                  store.movies[i].genres[k] = g}} :
           i \in Filtered}

(* C2, amended: the sum of movie_count over the Genre rows is at least the *)
(* number of filtered movies that list at least one genre; each bucket's   *)
(* movie_count is the number of times filtered movies list that genre, so  *)
(* a filtered movie with genres [A, B] adds one to A and one to B.         *)
C2_GenreFanOut ==
    Ran("genre") =>
       LET rows == rendered["genre"].rows
       IN /\ SumCounts(rows) >= Cardinality(Genred)
          /\ \A i \in DOMAIN rows :
                /\ rows[i]._id # Null
                /\ rows[i].movieCount = Cardinality(Listings(rows[i]._id))
          /\ \A i \in Genred : \A j \in DOMAIN store.movies[i].genres :
                store.movies[i].genres[j] # Null =>
                   store.movies[i].genres[j] \in RowIds(rows)

C2_Witness ==
    /\ Ran("genre")
    /\ \E i \in Filtered : store.movies[i].genres = <<"Drama", "Comedy">>
    /\ \E i \in Filtered : store.movies[i].genres = <<>>
    /\ RowIds(rendered["genre"].rows) = {"Drama", "Comedy"}

----------------------------------------------------------------------------
(* C3, as claimed: every movie that satisfies the filter predicate and is  *)
(* referenced by no comment is in the Discussion output, with              *)
(* comment_count = 0.                                                      *)
C3_UncommentedListed ==
    Ran("discussion") =>
       \A i \in Filtered : CommentsOn(i) = {} =>
          \E k \in DOMAIN rendered["discussion"].rows :
             /\ rendered["discussion"].rows[k]._id = i
             /\ rendered["discussion"].rows[k].comment_count = 0

(* C3, amended: every movie that satisfies the filter predicate and is     *)
(* referenced by no comment is in the Discussion output, with              *)
(* comment_count = 0, unless the output already holds its 15 rows.         *)
C3_UncommentedListedUpToLimit ==
    Ran("discussion") =>
       \A i \in Filtered : CommentsOn(i) = {} =>
          \/ Len(rendered["discussion"].rows) = DiscussionLimit
          \/ \E k \in DOMAIN rendered["discussion"].rows :
                /\ rendered["discussion"].rows[k]._id = i
                /\ rendered["discussion"].rows[k].comment_count = 0

C3_Witness ==
    /\ Ran("discussion")
    /\ Len(rendered["discussion"].rows) < DiscussionLimit
    /\ \E i \in Filtered :
          /\ CommentsOn(i) = {}
          /\ i \in RowIds(rendered["discussion"].rows)
    /\ \E i \in Filtered : CommentsOn(i) # {}

----------------------------------------------------------------------------
(* What a panel renders when no query of the run raises *)
Unfailed(p) ==
    CASE p = "kpi" ->
            {[status |-> "ok", rows |-> <<KpiMetrics(store)>>]}
      [] p = "trend" ->
            {Table(TrendPipeline(store.movies, match_stage))}
      [] p = "genre" ->
            {Table(GenrePipeline(store.movies, match_stage, rev)) : rev \in BOOLEAN}
      [] p = "discussion" ->
            IF KpiMetrics(store).comments_count > 0
            THEN {Table(DiscussionPipeline(store.movies, store.comments,
                                           match_stage, rev)) : rev \in BOOLEAN}
            ELSE {Nothing}
      [] p = "search" ->
            IF session.search # <<>>
            THEN {Table(SearchFind(store.movies, session.search, match_stage,
                                   session.limit))}
            ELSE {Nothing}

(* C4: at the end of a run in which the query of one panel raised, that    *)
(* panel shows its error, and every other panel shows what it shows when   *)
(* no query raises.                                                        *)
C4_PanelsIndependent ==
    pc = "done" =>
       \A p \in Panels :
          IF p \in failed THEN rendered[p].status = "error"
          ELSE rendered[p] \in Unfailed(p)

----------------------------------------------------------------------------
NumericYears ==
    {store.movies[i].year.val :
        i \in {k \in DOMAIN store.movies : store.movies[k].year.type = "number"}}

----------------------------------------------------------------------------
(* C6: no collection is queried, and the script is not past get_db,        *)
(* unless the connection string is present and a ping has succeeded.       *)
C6_NoQueryWithoutConnection ==
    (queries # {} \/ pc \notin {"config", "get_db", "stopped"}) =>
       (env.uri /\ pinged)

C6_Witness ==
    /\ pc = "stopped"
    /\ env.uri
    /\ ~env.ping
    /\ cache = "none"
    /\ queries = {}
    /\ store.movies # <<>>

----------------------------------------------------------------------------
(* C7: the Trend output is strictly ascending by year, has exactly one row *)
(* for each year of a movie that satisfies the filter predicate, and each  *)
(* row carries the number of those movies and the mean of their ratings.   *)
C7_TrendRows ==
    Ran("trend") =>
       LET rows == rendered["trend"].rows
           OfYear(y) == {i \in Filtered : store.movies[i].year.val = y}
       IN /\ \A i \in DOMAIN rows : \A j \in DOMAIN rows :
                i < j => rows[i]._id < rows[j]._id
          /\ RowIds(rows) = {store.movies[i].year.val : i \in Filtered}
          /\ \A i \in DOMAIN rows :
                /\ rows[i].movieCount = Cardinality(OfYear(rows[i]._id))
                /\ IsMean(rows[i].avgRating, OfYear(rows[i]._id))

C7_Witness ==
    /\ store.movies = <<Alpha, Beta>>
    /\ filter.rating_filter = 70
    /\ rendered["trend"] =
          [status |-> "ok",
           rows |-> <<[_id |-> 1994, avgRating |-> [num |-> 89, den |-> 1],
                       movieCount |-> 1]>>]

----------------------------------------------------------------------------
(* C8: the Discussion output has at most 15 rows, in descending order of   *)
(* comment_count; each row is a distinct movie that satisfies the filter   *)
(* predicate, with the number of comments whose movie_id is its id; no     *)
(* such movie left out has more comments than a movie in the output.       *)
C8_DiscussionTop ==
    Ran("discussion") =>
       LET rows == rendered["discussion"].rows
       IN /\ Len(rows) <= DiscussionLimit
          /\ \A i \in DOMAIN rows : \A j \in DOMAIN rows :
                i < j => /\ rows[i].comment_count >= rows[j].comment_count
                         /\ rows[i]._id # rows[j]._id
          /\ \A i \in DOMAIN rows :
                /\ rows[i]._id \in Filtered
                /\ rows[i].comment_count = Cardinality(CommentsOn(rows[i]._id))
          /\ \A m \in Filtered \ RowIds(rows) : \A i \in DOMAIN rows :
                Cardinality(CommentsOn(m)) <= rows[i].comment_count

C8_Witness ==
    /\ Ran("discussion")
    /\ Len(rendered["discussion"].rows) = DiscussionLimit
    /\ Filtered \ RowIds(rendered["discussion"].rows) # {}
    /\ rendered["discussion"].rows[1].comment_count
          > rendered["discussion"].rows[DiscussionLimit].comment_count

----------------------------------------------------------------------------
Hits ==
    {i \in Filtered : Contains(store.movies[i].title, session.search)}

(* C9: for a non-empty search text the Search output has at most           *)
(* result_limit records, each a movie that satisfies the filter predicate  *)
(* and whose title contains the text as a case-insensitive substring; when *)
(* at most result_limit movies do, the output is exactly those.            *)
C9_SearchSubstring ==
    Ran("search") =>
       LET rows == rendered["search"].rows
       IN /\ Len(rows) <= session.limit
          /\ RowIds(rows) \subseteq Hits
          /\ Cardinality(Hits) <= session.limit => RowIds(rows) = Hits

----------------------------------------------------------------------------
Rated == {i \in DOMAIN store.movies : store.movies[i].rating.type = "number"}

(* C10: when the KPI queries succeed, avg_rating is 0 if no movie has a    *)
(* numeric rating and the mean rating of the movies that have one          *)
(* otherwise; a missing users or comments collection counts 0.             *)
C10_KpiMetrics ==
    (pc \notin {"config", "get_db", "kpi", "stopped"} /\ "kpi" \notin failed) =>
       /\ rendered["kpi"] = [status |-> "ok", rows |-> <<kpi>>]
       /\ kpi.movies_count = Len(store.movies)
       /\ IF Rated = {} THEN kpi.avg_rating.num = 0
          ELSE IsMean(kpi.avg_rating, Rated)
       /\ "users" \notin store.collections => kpi.users_count = 0
       /\ "comments" \notin store.collections => kpi.comments_count = 0
       /\ "users" \in store.collections => kpi.users_count = store.users
       /\ "comments" \in store.collections =>
             kpi.comments_count = Len(store.comments)

C10_Witness ==
    /\ pc = "done"
    /\ "kpi" \notin failed
    /\ store.collections = {"movies"}
    /\ Cardinality(Rated) = 1
    /\ Len(store.movies) = 2
    /\ kpi.avg_rating.num > 0

====
